---- MODULE Spec2Model ----
(***************************************************************************)
(* Model of notifications/channels.py: BaseNotificationChannel and         *)
(* BasicWebSocketChannel (construct_message, _connect, notify), run by     *)
(* caller threads against a recording broker.                              *)
(***************************************************************************)
EXTENDS Integers, Sequences, FiniteSets, TLC

\* Total number of notify() invocations started in one behaviour.
MaxNotify == 2

\* Caller threads and the channel instances they call into.
Threads == {"t1", "t2"}
Instances == {"c1", "c2"}

----------------------------------------------------------------------------
\* Python values: a str, or an object json cannot encode.
Str(s) == [t |-> "str", s |-> s]
Obj == [t |-> "object", s |-> "<object>"]

\* One item of a dict (dicts keep insertion order).
Item(k, v) == [k |-> k, v |-> v]

Keys(d) == {d[i].k : i \in 1..Len(d)}
HasKey(d, k) == k \in Keys(d)
\* d[k]
Get(d, k) == d[CHOOSE i \in 1..Len(d) : d[i].k = k].v

\* The keyword arguments the two channel instances are constructed with.
KwargsOf(i) ==
  IF i = "c1"
  THEN <<Item("source", Str("alice")), Item("recipient", Str("bob")),
         Item("verb", Str("liked your post"))>>
  ELSE <<Item("source", Str("bob")), Item("recipient", Str("alice"))>>

\* Notification(**kwargs): a record of the fields given, in the order given.
Notification(kwargs) ==
  [fields |-> [i \in 1..Len(kwargs) |-> kwargs[i].k],
   values |-> [k \in Keys(kwargs) |-> Get(kwargs, k)]]

\* Notification.to_json(): the dictionary form of the record.
to_json(n) == [i \in 1..Len(n.fields) |-> Item(n.fields[i], n.values[n.fields[i]])]

\* json.dumps(message) for a dict of str values: raises TypeError otherwise.
Serializable(d) == \A i \in 1..Len(d) : d[i].v.t = "str"
Quote(s) == "\"" \o s \o "\""
RECURSIVE JoinItems(_, _)
JoinItems(d, i) ==
  IF i > Len(d) THEN ""
  ELSE (IF i > 1 THEN ", " ELSE "") \o Quote(d[i].k) \o ": " \o Quote(d[i].v.s)
       \o JoinItems(d, i + 1)
dumps(d) == "{" \o JoinItems(d, 1) \o "}"

\* The messages a caller may hand to notify(): nothing ties them to
\* construct_message()'s output.
Messages ==
  { <<Item("source", Str("alice")), Item("recipient", Str("bob")),
      Item("verb", Str("liked your post"))>>,
    <<Item("source", Str("bob")), Item("recipient", Str("alice"))>>,
    <<Item("source", Str("alice")), Item("recipient", Str("bob")),
      Item("verb", Obj)>>,
    <<Item("recipient", Str("bob"))>>,
    <<Item("source", Str("alice"))>> }

----------------------------------------------------------------------------
VARIABLES
  notification_kwargs, \* instance -> self.notification_kwargs
  pc,                  \* thread -> position in notify()
  self,                \* thread -> instance notify() runs on
  inv,                 \* thread -> number of its current notify() invocation
  message,             \* thread -> notify()'s argument
  connection,          \* thread -> local `connection` (0: unbound)
  jsonified_messasge,  \* thread -> local `jsonified_messasge` ("": unbound)
  err,                 \* thread -> exception propagated to the caller ("": none)
  result,              \* thread -> what construct_message() returned to it
  calls,               \* thread -> broker calls its current invocation issued
  conns,               \* broker: connections ever opened, in order
  queues,              \* broker: names of the declared queues
  outcome              \* notify() invocation number -> running, returned or raised

locals == <<pc, self, inv, message, connection, jsonified_messasge, err, calls>>
broker == <<conns, queues>>
vars == <<notification_kwargs, locals, result, broker, outcome>>

Init ==
  /\ notification_kwargs = [i \in Instances |-> KwargsOf(i)]
  /\ pc = [p \in Threads |-> "idle"]
  /\ self = [p \in Threads |-> "c1"]
  /\ inv = [p \in Threads |-> 0]
  /\ message = [p \in Threads |-> <<>>]
  /\ connection = [p \in Threads |-> 0]
  /\ jsonified_messasge = [p \in Threads |-> ""]
  /\ err = [p \in Threads |-> ""]
  /\ result = [p \in Threads |-> <<>>]
  /\ calls = [p \in Threads |-> <<>>]
  /\ conns = <<>>
  /\ queues = {}
  /\ outcome = <<>>

----------------------------------------------------------------------------
\* A thread is in its caller's code, outside notify() and construct_message().
InCaller(p) == pc[p] \in {"idle", "returned", "raised"}

\* Mutant: only the sender reaches the Notification, the other fields are lost.
construct_message_source_only(i) ==
  to_json(Notification(SubSeq(notification_kwargs[i], 1, 1)))

\* construct_message(): Notification(**self.notification_kwargs).to_json()
construct_message(i) == to_json(Notification(notification_kwargs[i]))

\* Mutant: construct_message() declares the sender's queue ahead of notify().
ConstructMessageDeclaring(p, i) ==
  /\ InCaller(p)
  /\ pc' = [pc EXCEPT ![p] = "constructed"]
  /\ self' = [self EXCEPT ![p] = i]
  /\ result' = [result EXCEPT ![p] = to_json(Notification(notification_kwargs[i]))]
  /\ inv' = [inv EXCEPT ![p] = 0]
  /\ message' = [message EXCEPT ![p] = <<>>]
  /\ connection' = [connection EXCEPT ![p] = 0]
  /\ jsonified_messasge' = [jsonified_messasge EXCEPT ![p] = ""]
  /\ err' = [err EXCEPT ![p] = ""]
  /\ calls' = [calls EXCEPT ![p] = <<>>]
  /\ queues' = queues \cup {Get(notification_kwargs[i], "source").s}
  /\ UNCHANGED <<notification_kwargs, conns, outcome>>

\* Thread p takes channel instance i and calls construct_message() on it,
\* keeping what it returns; the frame of its previous notify() is gone.
ConstructMessage(p, i) ==
  /\ InCaller(p)
  /\ pc' = [pc EXCEPT ![p] = "constructed"]
  /\ self' = [self EXCEPT ![p] = i]
  /\ result' = [result EXCEPT ![p] = construct_message(i)]
  /\ inv' = [inv EXCEPT ![p] = 0]
  /\ message' = [message EXCEPT ![p] = <<>>]
  /\ connection' = [connection EXCEPT ![p] = 0]
  /\ jsonified_messasge' = [jsonified_messasge EXCEPT ![p] = ""]
  /\ err' = [err EXCEPT ![p] = ""]
  /\ calls' = [calls EXCEPT ![p] = <<>>]
  /\ UNCHANGED <<notification_kwargs, broker, outcome>>

\* What a caller may pass to notify(): the payload it constructed, or any other.
Arguments(p) == Messages \cup {result[p]}

\* Thread p enters notify(m) on its channel instance.
NotifyCall(p, m) ==
  /\ pc[p] = "constructed"
  /\ Len(outcome) < MaxNotify
  /\ outcome' = Append(outcome, "running")
  /\ pc' = [pc EXCEPT ![p] = "connect"]
  /\ inv' = [inv EXCEPT ![p] = Len(outcome) + 1]
  /\ message' = [message EXCEPT ![p] = m]
  /\ UNCHANGED <<notification_kwargs, self, connection, jsonified_messasge, err,
                 calls, result, broker>>

\* A call the broker receives: on connection conn, accepted (ok) or raising.
BrokerCall(op, conn, args, ok) == [op |-> op, conn |-> conn, args |-> args, ok |-> ok]

\* The broker records a call of p's invocation on connection c.
Used(c, p, op) == [conns EXCEPT ![c].log = Append(@, [op |-> op, by |-> inv[p]])]

\* notify() leaves p's invocation: it returns, or an exception propagates.
Leave(p, how) == [outcome EXCEPT ![inv[p]] = how]

\* Mutant: a failed connect is swallowed and notify() returns normally.
ConnectSwallowing(p) ==
  /\ pc[p] = "connect"
  /\ \/ /\ conns' = Append(conns, [state |-> "open", by |-> inv[p], log |-> <<>>])
        /\ connection' = [connection EXCEPT ![p] = Len(conns) + 1]
        /\ calls' = [calls EXCEPT ![p] =
                       Append(@, BrokerCall("connect", Len(conns) + 1, <<>>, TRUE))]
        /\ pc' = [pc EXCEPT ![p] = "channel"]
        /\ UNCHANGED <<err, outcome>>
     \/ /\ calls' = [calls EXCEPT ![p] = Append(@, BrokerCall("connect", 0, <<>>, FALSE))]
        /\ pc' = [pc EXCEPT ![p] = "returned"]
        /\ outcome' = Leave(p, "returned")
        /\ UNCHANGED <<conns, connection, err>>
  /\ UNCHANGED <<notification_kwargs, self, inv, message, jsonified_messasge,
                 result, queues>>

\* Line 53, self._connect(): pika.BlockingConnection(...) returns a new
\* connection, or raises when the broker is unreachable.
Connect(p) ==
  /\ pc[p] = "connect"
  /\ \/ /\ conns' = Append(conns, [state |-> "open", by |-> inv[p], log |-> <<>>])
        /\ connection' = [connection EXCEPT ![p] = Len(conns) + 1]
        /\ calls' = [calls EXCEPT ![p] =
                       Append(@, BrokerCall("connect", Len(conns) + 1, <<>>, TRUE))]
        /\ pc' = [pc EXCEPT ![p] = "channel"]
        /\ UNCHANGED <<err, outcome>>
     \/ /\ calls' = [calls EXCEPT ![p] = Append(@, BrokerCall("connect", 0, <<>>, FALSE))]
        /\ pc' = [pc EXCEPT ![p] = "raised"]
        /\ outcome' = Leave(p, "raised")
        /\ err' = [err EXCEPT ![p] = "ConnectionError"]
        /\ UNCHANGED <<conns, connection>>
  /\ UNCHANGED <<notification_kwargs, self, inv, message, jsonified_messasge,
                 result, queues>>

\* Mutant: the connection is kept in one shared place, so notify() works on
\* whichever connection was opened last.
SharedConn(p) == Len(conns)

\* The connection notify() works on: its local variable `connection`.
Conn(p) == connection[p]

\* Line 54: channel = connection.channel()
Channel(p) ==
  /\ pc[p] = "channel"
  /\ conns' = Used(Conn(p), p, "channel")
  /\ calls' = [calls EXCEPT ![p] = Append(@, BrokerCall("channel", Conn(p), <<>>, TRUE))]
  /\ pc' = [pc EXCEPT ![p] = "queue_declare"]
  /\ UNCHANGED <<notification_kwargs, self, inv, message, connection,
                 jsonified_messasge, err, result, queues, outcome>>

\* Mutant: the queue is named after the instance's own attributes.
QueueNameFromKwargs(p) == Get(notification_kwargs[self[p]], "source").s

\* The queue notify() declares: message['source'].
QueueName(p) == Get(message[p], "source").s

\* Line 56: channel.queue_declare(queue=message['source']). message['source']
\* raises KeyError before the call; the broker may reject the declaration.
QueueDeclare(p) ==
  /\ pc[p] = "queue_declare"
  /\ IF ~HasKey(message[p], "source")
     THEN /\ pc' = [pc EXCEPT ![p] = "raised"]
          /\ outcome' = Leave(p, "raised")
          /\ err' = [err EXCEPT ![p] = "KeyError"]
          /\ UNCHANGED <<calls, conns, queues>>
     ELSE \/ /\ queues' = queues \cup {QueueName(p)}
             /\ conns' = Used(Conn(p), p, "queue_declare")
             /\ calls' = [calls EXCEPT ![p] = Append(@,
                            BrokerCall("queue_declare", Conn(p), <<QueueName(p)>>, TRUE))]
             /\ pc' = [pc EXCEPT ![p] = "dumps"]
             /\ UNCHANGED <<err, outcome>>
          \/ /\ conns' = Used(Conn(p), p, "queue_declare")
             /\ calls' = [calls EXCEPT ![p] = Append(@,
                            BrokerCall("queue_declare", Conn(p), <<QueueName(p)>>, FALSE))]
             /\ pc' = [pc EXCEPT ![p] = "raised"]
             /\ outcome' = Leave(p, "raised")
             /\ err' = [err EXCEPT ![p] = "BrokerProtocolError"]
             /\ UNCHANGED queues
  /\ UNCHANGED <<notification_kwargs, self, inv, message, connection,
                 jsonified_messasge, result>>

\* Line 58: jsonified_messasge = dumps(message)
Dumps(p) ==
  /\ pc[p] = "dumps"
  /\ IF Serializable(message[p])
     THEN /\ jsonified_messasge' = [jsonified_messasge EXCEPT ![p] = dumps(message[p])]
          /\ pc' = [pc EXCEPT ![p] = "basic_publish"]
          /\ UNCHANGED <<err, outcome>>
     ELSE /\ pc' = [pc EXCEPT ![p] = "raised"]
          /\ outcome' = Leave(p, "raised")
          /\ err' = [err EXCEPT ![p] = "TypeError"]
          /\ UNCHANGED jsonified_messasge
  /\ UNCHANGED <<notification_kwargs, self, inv, message, connection, calls,
                 result, broker>>

\* Mutant: the message is routed to its sender.
PublishArgsToSource(p) == <<"", Get(message[p], "source").s, jsonified_messasge[p]>>

\* The arguments of basic_publish: exchange, routing_key, body.
PublishArgs(p) == <<"", Get(message[p], "recipient").s, jsonified_messasge[p]>>

\* Mutant: a rejected publish is compensated by deleting the declared queue.
BasicPublishCompensating(p) ==
  /\ pc[p] = "basic_publish"
  /\ IF ~HasKey(message[p], "recipient")
     THEN /\ pc' = [pc EXCEPT ![p] = "raised"]
          /\ outcome' = Leave(p, "raised")
          /\ err' = [err EXCEPT ![p] = "KeyError"]
          /\ UNCHANGED <<calls, conns, queues>>
     ELSE \/ /\ conns' = Used(connection[p], p, "basic_publish")
             /\ calls' = [calls EXCEPT ![p] = Append(@,
                            BrokerCall("basic_publish", connection[p],
                                       <<"", Get(message[p], "recipient").s,
                                         jsonified_messasge[p]>>, TRUE))]
             /\ pc' = [pc EXCEPT ![p] = "close"]
             /\ UNCHANGED <<err, outcome, queues>>
          \/ /\ conns' = Used(connection[p], p, "basic_publish")
             /\ calls' = [calls EXCEPT ![p] = Append(@,
                            BrokerCall("basic_publish", connection[p],
                                       <<"", Get(message[p], "recipient").s,
                                         jsonified_messasge[p]>>, FALSE))]
             /\ pc' = [pc EXCEPT ![p] = "raised"]
             /\ outcome' = Leave(p, "raised")
             /\ err' = [err EXCEPT ![p] = "BrokerProtocolError"]
             /\ queues' = queues \ {Get(message[p], "source").s}
  /\ UNCHANGED <<notification_kwargs, self, inv, message, connection,
                 jsonified_messasge, result>>

\* Lines 59-62: channel.basic_publish(exchange='', routing_key=message['recipient'],
\* body=jsonified_messasge). message['recipient'] raises KeyError before the
\* call; the broker may reject the publish.
BasicPublish(p) ==
  /\ pc[p] = "basic_publish"
  /\ IF ~HasKey(message[p], "recipient")
     THEN /\ pc' = [pc EXCEPT ![p] = "raised"]
          /\ outcome' = Leave(p, "raised")
          /\ err' = [err EXCEPT ![p] = "KeyError"]
          /\ UNCHANGED <<calls, conns>>
     ELSE \/ /\ conns' = Used(Conn(p), p, "basic_publish")
             /\ calls' = [calls EXCEPT ![p] = Append(@,
                            BrokerCall("basic_publish", Conn(p), PublishArgs(p), TRUE))]
             /\ pc' = [pc EXCEPT ![p] = "close"]
             /\ UNCHANGED <<err, outcome>>
          \/ /\ conns' = Used(Conn(p), p, "basic_publish")
             /\ calls' = [calls EXCEPT ![p] = Append(@,
                            BrokerCall("basic_publish", Conn(p), PublishArgs(p), FALSE))]
             /\ pc' = [pc EXCEPT ![p] = "raised"]
             /\ outcome' = Leave(p, "raised")
             /\ err' = [err EXCEPT ![p] = "BrokerProtocolError"]
  /\ UNCHANGED <<notification_kwargs, self, inv, message, connection,
                 jsonified_messasge, result, queues>>

\* Mutant: notify() returns after the publish and never closes the connection.
CloseForgotten(p) ==
  /\ pc[p] = "close"
  /\ pc' = [pc EXCEPT ![p] = "returned"]
  /\ outcome' = Leave(p, "returned")
  /\ UNCHANGED <<notification_kwargs, self, inv, message, connection,
                 jsonified_messasge, err, result, calls, broker>>

\* Line 64: connection.close(), then notify() returns None.
Close(p) ==
  /\ pc[p] = "close"
  /\ conns' = [Used(Conn(p), p, "close") EXCEPT ![Conn(p)].state = "closed"]
  /\ calls' = [calls EXCEPT ![p] = Append(@, BrokerCall("close", Conn(p), <<>>, TRUE))]
  /\ pc' = [pc EXCEPT ![p] = "returned"]
  /\ outcome' = Leave(p, "returned")
  /\ UNCHANGED <<notification_kwargs, self, inv, message, connection,
                 jsonified_messasge, err, result, queues>>

Next ==
  \/ \E p \in Threads, i \in Instances : ConstructMessage(p, i)
  \/ \E p \in Threads : \E m \in Arguments(p) : NotifyCall(p, m)
  \/ \E p \in Threads : Connect(p)
  \/ \E p \in Threads : Channel(p)
  \/ \E p \in Threads : QueueDeclare(p)
  \/ \E p \in Threads : Dumps(p)
  \/ \E p \in Threads : BasicPublish(p)
  \/ \E p \in Threads : Close(p)

Spec == Init /\ [][Next]_vars

----------------------------------------------------------------------------
\* Helpers of the properties below.
Ops(cs) == [k \in 1..Len(cs) |-> cs[k].op]
IsPrefix(a, b) == Len(a) <= Len(b) /\ a = SubSeq(b, 1, Len(a))
At(cs, op) == {k \in 1..Len(cs) : cs[k].op = op}
Min(a, b) == IF a <= b THEN a ELSE b
ConnIds == 1..Len(conns)

\* The steps of one successful notify(), in the order of lines 53 to 64.
NotifySteps == <<"connect", "channel", "queue_declare", "basic_publish", "close">>

ExampleMessage ==
  <<Item("source", Str("alice")), Item("recipient", Str("bob")),
    Item("verb", Str("liked your post"))>>

\* C1: a notify(message) whose message has 'source' and 'recipient' issues at
\* most one queue_declare, named message['source'], and at most one
\* basic_publish, on exchange '' with routing key message['recipient'] and body
\* the JSON text of message, never before an accepted declare; a call that
\* returns has issued exactly one of each.
C1_DeclareThenPublish ==
  \A p \in Threads :
    LET cs == calls[p]
        m == message[p]
        D == At(cs, "queue_declare")
        P == At(cs, "basic_publish")
    IN (HasKey(m, "source") /\ HasKey(m, "recipient")) =>
         /\ Cardinality(D) <= 1
         /\ Cardinality(P) <= 1
         /\ \A k \in D : cs[k].args = <<Get(m, "source").s>>
         /\ \A k \in P : /\ cs[k].args = <<"", Get(m, "recipient").s, dumps(m)>>
                         /\ \E j \in D : j < k /\ cs[j].ok
         /\ pc[p] = "returned" =>
              /\ Cardinality(D) = 1
              /\ Cardinality(P) = 1
              /\ \A k \in D \cup P : cs[k].ok

C1_Witness ==
  \E p \in Threads :
    /\ pc[p] = "returned"
    /\ message[p] = ExampleMessage
    /\ calls[p][3] = BrokerCall("queue_declare", connection[p], <<"alice">>, TRUE)
    /\ calls[p][4].args =
         <<"", "bob",
           "{\"source\": \"alice\", \"recipient\": \"bob\", \"verb\": \"liked your post\"}">>

\* C2 (as claimed): once a notify() that opened a connection has returned or
\* raised, that connection is closed.
C2_AlwaysCloses ==
  \A c \in ConnIds :
    outcome[conns[c].by] \in {"returned", "raised"} => conns[c].state = "closed"

\* C3: when connect raises, notify() propagates ConnectionError and issues no
\* further broker call: no connection exists for it, nothing is declared,
\* published or closed by it.
C3_ConnectErrorPropagates ==
  \A p \in Threads :
    (calls[p] # <<>> /\ ~calls[p][1].ok) =>
      /\ pc[p] = "raised"
      /\ err[p] = "ConnectionError"
      /\ outcome[inv[p]] = "raised"
      /\ calls[p] = <<BrokerCall("connect", 0, <<>>, FALSE)>>
      /\ connection[p] = 0
      /\ \A c \in ConnIds : conns[c].by # inv[p]

C3_Witness ==
  \E p \in Threads :
    /\ pc[p] = "raised"
    /\ err[p] = "ConnectionError"
    /\ Ops(calls[p]) = <<"connect">>
    /\ ~calls[p][1].ok

\* C4 (as claimed): a notify() that raises for a value json cannot encode has
\* made no broker call.
C4_SerializationErrorBeforeBroker ==
  \A p \in Threads :
    (pc[p] = "raised" /\ err[p] = "TypeError") =>
      /\ calls[p] = <<>>
      /\ \A c \in ConnIds : conns[c].by # inv[p]

\* C5: a step in which a thread's construct_message() call completes leaves
\* the broker as it was: no connection opened, closed or used, no queue
\* declared, and the caller holds no connection and has issued no call.
C5_ConstructMessageNoBrokerEffect ==
  [][\A p \in Threads :
       (pc[p] # "constructed" /\ pc'[p] = "constructed") =>
         /\ conns' = conns
         /\ queues' = queues
         /\ connection'[p] = 0
         /\ calls'[p] = <<>>]_vars

C5_Witness ==
  \E p \in Threads :
    /\ pc[p] = "constructed"
    /\ result[p] = ExampleMessage
    /\ Len(conns) >= 1
    /\ queues # {}

\* The mapping r holds exactly the fields of kwargs with their values.
RoundTrip(r, kwargs) ==
  /\ Len(r) = Len(kwargs)
  /\ Keys(r) = Keys(kwargs)
  /\ \A k \in Keys(kwargs) : Get(r, k) = Get(kwargs, k)

C7_OwnConnection ==
  /\ \A c \in ConnIds :
       \A k \in 1..Len(conns[c].log) : conns[c].log[k].by = conns[c].by
  /\ \A p \in Threads :
       /\ \A k \in 1..Len(calls[p]) : calls[p][k].conn = connection[p]
       /\ connection[p] # 0 => conns[connection[p]].by = inv[p]
       /\ \A q \in Threads \ {p} : connection[p] # 0 => connection[q] # connection[p]
       /\ pc[p] = "returned" =>
            /\ Cardinality({k \in At(calls[p], "basic_publish") :
                              /\ calls[p][k].ok
                              /\ calls[p][k].args[3] = dumps(message[p])}) = 1
            /\ Cardinality(At(conns[connection[p]].log, "basic_publish")) = 1

C7_Witness ==
  \E p, q \in Threads :
    /\ p # q
    /\ self[p] = self[q]
    /\ pc[p] = "close" /\ pc[q] = "close"
    /\ connection[p] # connection[q]
    /\ conns[connection[p]].state = "open"
    /\ conns[connection[q]].state = "open"

\* C8: the calls of a notify() are always a prefix of connect, channel,
\* queue_declare, basic_publish, close, and all five once it has returned; a
\* closed connection saw channel, queue_declare, basic_publish, close and
\* nothing else; the connection of a notify() that returned is closed; and
\* when every notify() started so far has returned, no connection is open.
C8_OneShotSequence ==
  /\ \A p \in Threads :
       /\ IsPrefix(Ops(calls[p]), NotifySteps)
       /\ pc[p] = "returned" =>
            /\ Ops(calls[p]) = NotifySteps
            /\ \A k \in 1..Len(calls[p]) : calls[p][k].ok
  /\ \A c \in ConnIds :
       /\ conns[c].state = "closed" =>
            Ops(conns[c].log) = SubSeq(NotifySteps, 2, Len(NotifySteps))
       /\ outcome[conns[c].by] = "returned" => conns[c].state = "closed"
  /\ (\A k \in 1..Len(outcome) : outcome[k] = "returned") =>
       /\ Len(conns) = Len(outcome)
       /\ {c \in ConnIds : conns[c].state = "open"} = {}

C8_Witness ==
  /\ Len(outcome) >= 2
  /\ \A k \in 1..Len(outcome) : outcome[k] = "returned"
  /\ Len(conns) >= 2
  /\ \A c \in ConnIds : conns[c].state = "closed"

\* C9: when basic_publish raises after the declare, the queue named
\* message['source'] is still declared, the publish was attempted once and
\* nothing followed it, and BrokerProtocolError reaches the caller.
C9_NoCompensation ==
  \A p \in Threads :
    (pc[p] = "raised" /\ calls[p] # <<>>
       /\ calls[p][Len(calls[p])].op = "basic_publish") =>
      /\ err[p] = "BrokerProtocolError"
      /\ ~calls[p][Len(calls[p])].ok
      /\ Get(message[p], "source").s \in queues
      /\ Ops(calls[p]) = SubSeq(NotifySteps, 1, 4)
      /\ Ops(conns[connection[p]].log) = SubSeq(NotifySteps, 2, 4)

C9_Witness ==
  \E p \in Threads :
    /\ pc[p] = "raised"
    /\ err[p] = "BrokerProtocolError"
    /\ Len(calls[p]) = 4
    /\ calls[p][4].op = "basic_publish"
    /\ calls[p][3].ok
    /\ message[p] = ExampleMessage
    /\ "alice" \in queues

\* C10: notification_kwargs stays as the constructor set it, and two threads
\* given the same message issue the same calls with the same arguments,
\* whatever instances they run on.
C10_NotifyIgnoresKwargs ==
  /\ notification_kwargs = [i \in Instances |-> KwargsOf(i)]
  /\ \A p, q \in Threads :
       message[p] = message[q] =>
         \A k \in 1..Min(Len(calls[p]), Len(calls[q])) :
           /\ calls[p][k].op = calls[q][k].op
           /\ calls[p][k].args = calls[q][k].args

C10_Witness ==
  \E p, q \in Threads :
    /\ self[p] = "c1" /\ self[q] = "c2"
    /\ message[p] = ExampleMessage /\ message[q] = ExampleMessage
    /\ pc[p] = "returned" /\ pc[q] = "returned"
    /\ calls[q][3].args = <<"alice">>
    /\ calls[q][4].args = calls[p][4].args

====
